---- MODULE Spec2Model ----
(***************************************************************************)
(* A model of the bitcask engine (engine/engine.go, engine/file_entry.go). *)
(*                                                                         *)
(* The data directory is a map from segment names to byte sequences; the   *)
(* segment "<n>.data" is named by the integer n.  Bytes are naturals below *)
(* 256.  The engine is its key directory, its active-file handle (with the *)
(* handle's own file position, which O_APPEND does not move until the      *)
(* first write) and its size cap.  Every handler is one action.  The clock *)
(* is time.Now().Unix(): whole seconds, non-decreasing.                    *)
(***************************************************************************)
EXTENDS Naturals, Integers, Sequences, FiniteSets, TLC

VARIABLES
    now,          \* time.Now().Unix()
    disk,         \* data directory: segment name -> file content (bytes)
    Keydir,       \* BitcaskEngine.Keydir
    ActiveFile,   \* BitcaskEngine.ActiveFile: [state, name, pos]
    MaxFileSize,  \* BitcaskEngine.MaxFileSize
    ret,          \* what the last handler returned
    model,        \* history: effect of the last successful put/delete per key on this engine
    rolled,       \* history: segments that a rollover has closed
    nputs,        \* history: successful puts since the directory was empty
    nwrites,      \* history: records appended (bounds the run)
    nopens,       \* history: engines opened after the first (bounds the run)
    session,      \* history: where the run is in "S; close; open; build_index"
    preClose,     \* history: what get returned for each key just before close
    mu,           \* BitcaskEngine.mu: the thread that holds it, 0 when free
    pc,           \* concurrent callers: where each thread is
    loc,          \* concurrent callers: each thread's call, locals and result
    whist,        \* history: per key, the effects of the writes in mutex order
    applied,      \* history: per key, the last successful put/delete on this directory
    others,       \* data directory: the entries other than "<n>.data" files
    codec         \* codec on its own: a record, its encoding, the decoded record

seq == <<ret, model, nputs, nopens, session, preClose, applied>>
conc == <<mu, pc, loc, whist>>
env == <<others, codec>>

vars == <<now, disk, Keydir, ActiveFile, MaxFileSize, ret, model, rolled,
          nputs, nwrites, nopens, session, preClose, mu, pc, loc, whist,
          applied, others, codec>>

(***************************************************************************)
(* Bounds and inputs.                                                      *)
(***************************************************************************)
MaxClock == 1
MaxWrites == 2
MaxOpens == 1
NumThreads == 2

Threads == 1..NumThreads

\* MaxFileSize: 1 * 1024 * 1024
DefaultMaxFileSize == 1048576

Keys == {<<1>>, <<2>>}
Values == {<<7>>, <<8, 8>>}

\* Bytes that reach the file when a Write fails part-way.
PartialWrites == {3}

\* Where a filesystem call of putFileEntry fails, and for a failing Write the
\* number of bytes it has written; "none" is a call without a failure.
Faults ==
    {[at |-> a, n |-> 0] : a \in {"none", "stat", "close", "open", "seek"}}
        \cup {[at |-> a, n |-> k] : a \in {"prefix", "payload"}, k \in PartialWrites}

\* Size caps the owner of the engine sets (the field is public): one that
\* holds a single framed record, one that holds two.
MaxFileSizes == {20, 40}

(***************************************************************************)
(* Record codec (file_entry.go).                                           *)
(***************************************************************************)
RECURSIVE SumBytes(_)
SumBytes(s) == IF s = <<>> THEN 0 ELSE Head(s) + SumBytes(Tail(s))

\* hasher.Write(key); hasher.Write(value); hasher.Sum32(): a checksum of
\* key||value, here the byte sum modulo 256.
Crc(key, value) == SumBytes(key \o value) % 256

NewFileEntry(key, value, isTombstone, t) ==
    [Crc |-> Crc(key, value), Tstamp |-> t, Ksz |-> Len(key),
     ValueSz |-> Len(value), Key |-> key, Value |-> value,
     IsTombstone |-> isTombstone]

\* an encoder that writes the two size fields in each other's place
GobBodySizesSwapped(fe) ==
    <<fe.Crc, fe.Tstamp, fe.ValueSz, fe.Ksz, Len(fe.Key)>> \o fe.Key
        \o <<Len(fe.Value)>> \o fe.Value
        \o <<IF fe.IsTombstone THEN 1 ELSE 0>>

\* gob: one length-delimited message, the fields in declaration order, each
\* string with its own length in front.
GobBody(fe) ==
    <<fe.Crc, fe.Tstamp, fe.Ksz, fe.ValueSz, Len(fe.Key)>> \o fe.Key
        \o <<Len(fe.Value)>> \o fe.Value
        \o <<IF fe.IsTombstone THEN 1 ELSE 0>>

Serialize(fe) == <<Len(GobBody(fe))>> \o GobBody(fe)

DecodeError == [err |-> TRUE,
                fe |-> [Crc |-> 0, Tstamp |-> 0, Ksz |-> 0, ValueSz |-> 0,
                        Key |-> <<>>, Value |-> <<>>, IsTombstone |-> FALSE]]

\* The decoder reads one message from the front of the buffer and ignores
\* what follows it; a buffer that ends inside the message does not decode.
DeserializeFileEntry(buf) ==
    IF Len(buf) = 0 THEN DecodeError
    ELSE IF Len(buf) < 1 + buf[1] \/ buf[1] < 7 THEN DecodeError
    ELSE LET klen == buf[6]
         IN IF buf[1] < 7 + klen THEN DecodeError
            ELSE LET vlen == buf[7 + klen]
                 IN IF buf[1] # 7 + klen + vlen \/ buf[8 + klen + vlen] > 1
                    THEN DecodeError
                    ELSE [err |-> FALSE,
                          fe |-> [Crc |-> buf[2], Tstamp |-> buf[3],
                                  Ksz |-> buf[4], ValueSz |-> buf[5],
                                  Key |-> SubSeq(buf, 7, 6 + klen),
                                  Value |-> SubSeq(buf, 8 + klen, 7 + klen + vlen),
                                  IsTombstone |-> buf[8 + klen + vlen] = 1]]

(***************************************************************************)
(* Framing and the filesystem calls the engine makes.                      *)
(***************************************************************************)
\* binary.BigEndian.PutUint64, for lengths below 2^31
PutUint64(n) ==
    <<0, 0, 0, 0, (n \div 16777216) % 256, (n \div 65536) % 256,
      (n \div 256) % 256, n % 256>>

\* binary.BigEndian.Uint64 of an 8-byte buffer whose value is below 2^31
\* (the model writes no longer payloads)
Uint64(b) ==
    IF b[1] + b[2] + b[3] + b[4] > 0 \/ b[5] >= 128 THEN 2147483647
    ELSE ((b[5] * 256 + b[6]) * 256 + b[7]) * 256 + b[8]

NilFile == [state |-> "nil", name |-> 0, pos |-> 0]

\* fmt.Sprintf("%d.data", time.Now().Unix())
SegmentName(t) == t

\* os.OpenFile(path, O_APPEND|O_CREATE|O_WRONLY): creates the file when it
\* does not exist, keeps its content when it does.
CreateIfAbsent(dsk, name) ==
    IF name \in DOMAIN dsk THEN dsk
    ELSE [f \in DOMAIN dsk \cup {name} |-> IF f = name THEN <<>> ELSE dsk[f]]

\* The handle a fresh open returns: its position is 0 whatever the file holds.
OpenAppend(name) == [state |-> "open", name |-> name, pos |-> 0]

\* ActiveFile.Seek(0, io.SeekCurrent): the handle's position.
SeekCurrent(af) == af.pos

\* a Write that puts the bytes in the place of what the file holds
WriteOver(dsk, name, bytes) == [dsk EXCEPT ![name] = bytes]

\* ActiveFile.Write on an O_APPEND handle: the bytes go to the end of the
\* file and the handle's position moves to the new end.
AppendBytes(dsk, name, bytes) == [dsk EXCEPT ![name] = @ \o bytes]

NoEntry == [FileID |-> 0, ValueSz |-> 0, ValuePos |-> 0, Tstamp |-> 0]

rollOverActiveFile(af, dsk, t) ==
    [af |-> OpenAppend(SegmentName(t)), dsk |-> CreateIfAbsent(dsk, SegmentName(t))]

\* fileInfo.Size()+totalLen > be.MaxFileSize
NeedsRollover(size, totalLen, max) == size + totalLen > max

\* a Stat that succeeds on any handle
StatFailsNever(af) == FALSE

\* be.ActiveFile.Stat() fails on the nil handle that Close leaves (ErrInvalid)
\* and on a handle that has been closed
StatFails(af) == af.state # "open"

\* putFileEntry up to and including the write of the length prefix:
\* encode, Stat, rollover when the cap would be exceeded, Seek, Write(lenBuf).
putFileEntryPrefix(fe, af, dsk, t, max) ==
    LET payload == Serialize(fe)
        payloadLen == Len(payload)
        lenBuf == PutUint64(payloadLen)
        totalLen == 8 + payloadLen
    IN  IF StatFails(af)
        THEN [err |-> TRUE, rollover |-> FALSE, af |-> af, dsk |-> dsk,
              offset |-> 0, payload |-> payload, tstamp |-> fe.Tstamp]
        ELSE LET roll == NeedsRollover(Len(dsk[af.name]), totalLen, max)
                 r == IF roll THEN rollOverActiveFile(af, dsk, t)
                              ELSE [af |-> af, dsk |-> dsk]
                 offset == SeekCurrent(r.af)
                 d2 == AppendBytes(r.dsk, r.af.name, lenBuf)
             IN  [err |-> FALSE, rollover |-> roll,
                  af |-> [r.af EXCEPT !.pos = Len(d2[r.af.name])],
                  dsk |-> d2, offset |-> offset, payload |-> payload,
                  tstamp |-> fe.Tstamp]

\* The rest of putFileEntry: Write(payload) and the locator it returns.
putFileEntryPayload(af, dsk, offset, payload, tstamp) ==
    LET d2 == AppendBytes(dsk, af.name, payload)
    IN  [af |-> [af EXCEPT !.pos = Len(d2[af.name])],
         dsk |-> d2,
         entry |-> [FileID |-> af.name, ValueSz |-> 8 + Len(payload),
                    ValuePos |-> offset, Tstamp |-> tstamp]]

putFileEntry(fe, af, dsk, t, max) ==
    LET p == putFileEntryPrefix(fe, af, dsk, t, max)
    IN  IF p.err
        THEN [err |-> TRUE, rollover |-> FALSE, af |-> af, dsk |-> dsk, entry |-> NoEntry]
        ELSE LET q == putFileEntryPayload(p.af, p.dsk, p.offset, p.payload, p.tstamp)
             IN  [err |-> FALSE, rollover |-> p.rollover, af |-> q.af,
                  dsk |-> q.dsk, entry |-> q.entry]

\* file.ReadAt(buf, off) with len(buf) = n: fails unless all n bytes exist
ReadAtOk(content, off, n) == off + n <= Len(content)

fetchFromDisk(record, dsk) ==
    IF record.FileID \notin DOMAIN dsk THEN DecodeError
    ELSE LET payloadStartOffset == record.ValuePos + 8
             payloadLength == record.ValueSz - 8
             content == dsk[record.FileID]
         IN  IF payloadLength < 0 THEN DecodeError
             ELSE IF ~ReadAtOk(content, payloadStartOffset, payloadLength) THEN DecodeError
             ELSE DeserializeFileEntry(
                      SubSeq(content, payloadStartOffset + 1,
                             payloadStartOffset + payloadLength))

GetError == [ok |-> FALSE, val |-> <<>>]

\* What Get(key) returns for a key directory and a disk.
GetResult(kd, dsk, key) ==
    IF key \notin DOMAIN kd THEN GetError
    ELSE LET e == fetchFromDisk(kd[key], dsk)
         IN  IF e.err THEN GetError
             ELSE IF e.fe.IsTombstone THEN GetError
             ELSE [ok |-> TRUE, val |-> e.fe.Value]

KeydirSet(kd, key, entry) ==
    [k \in DOMAIN kd \cup {key} |-> IF k = key THEN entry ELSE kd[k]]

\* a delete that leaves the entry in the directory
KeydirDeleteKeeps(kd, key) == kd

KeydirDelete(kd, key) == [k \in DOMAIN kd \ {key} |-> kd[k]]

\* a delete that does not look the key up
KeyPresentUnchecked(kd, key) == TRUE

\* Delete's guard: the key must be in the directory
KeyPresent(kd, key) == key \in DOMAIN kd

(***************************************************************************)
(* Recovery (BuildIndex, processOldFile).                                  *)
(***************************************************************************)
\* a test that wants the record strictly newer than the entry
AppliesOnlyNewer(ok, existingTstamp, fe) == ~ok \/ fe.Tstamp > existingTstamp

\* !ok || fe.Tstamp >= existingKeyDirEntry.Tstamp
Applies(ok, existingTstamp, fe) == ~ok \/ fe.Tstamp >= existingTstamp

\* existingKeyDirEntry, ok := be.Keydir[fe.Key]
Lookup(kd, key) ==
    [ok |-> key \in DOMAIN kd,
     Tstamp |-> IF key \in DOMAIN kd THEN kd[key].Tstamp ELSE 0]

\* The update of the directory for one decoded record, given the entry
\* that the lookup found.
ApplyRecordSeen(kd, fe, existing, filePath, recordStartOffset, recordTotalSize) ==
    IF fe.IsTombstone
    THEN IF Applies(existing.ok, existing.Tstamp, fe) THEN KeydirDelete(kd, fe.Key) ELSE kd
    ELSE IF Applies(existing.ok, existing.Tstamp, fe)
         THEN KeydirSet(kd, fe.Key,
                        [FileID |-> filePath, ValueSz |-> recordTotalSize,
                         ValuePos |-> recordStartOffset, Tstamp |-> fe.Tstamp])
         ELSE kd

\* a replay that never touches a key that has an entry
ApplyRecordKeepsFirst(kd, fe, filePath, recordStartOffset, recordTotalSize) ==
    IF fe.Key \in DOMAIN kd THEN kd
    ELSE ApplyRecordSeen(kd, fe, Lookup(kd, fe.Key), filePath, recordStartOffset,
                         recordTotalSize)

ApplyRecord(kd, fe, filePath, recordStartOffset, recordTotalSize) ==
    ApplyRecordSeen(kd, fe, Lookup(kd, fe.Key), filePath, recordStartOffset,
                    recordTotalSize)

\* payloadBuf := make([]byte, payloadLen): a length of 2^48 or more (one of the
\* two high bytes of the prefix is not 0) is beyond what the runtime
\* allocates on any platform, and make panics ("makeslice: len out of
\* range"); nothing recovers the panic.  Lengths below that are taken to be
\* allocated.
MakeSliceFails(lenBuf) == lenBuf[1] + lenBuf[2] > 0

\* One pass of the loop of processOldFile at currentOffset: "eof", "error",
\* "panic", or the decoded record and its total size.
ReadRecord(content, currentOffset) ==
    LET remaining == Len(content) - currentOffset
    IN  IF remaining = 0 THEN [st |-> "eof", fe |-> DecodeError.fe, size |-> 0]
        ELSE IF remaining < 8 THEN [st |-> "error", fe |-> DecodeError.fe, size |-> 0]
        ELSE LET lenBuf == SubSeq(content, currentOffset + 1, currentOffset + 8)
                 payloadLen == Uint64(lenBuf)
                 payloadOffset == currentOffset + 8
             IN  IF MakeSliceFails(lenBuf)
                 THEN [st |-> "panic", fe |-> DecodeError.fe, size |-> 0]
                 ELSE IF remaining - 8 < payloadLen
                 THEN [st |-> "error", fe |-> DecodeError.fe, size |-> 0]
                 ELSE LET d == DeserializeFileEntry(
                                   SubSeq(content, payloadOffset + 1, payloadOffset + payloadLen))
                      IN  IF d.err THEN [st |-> "error", fe |-> DecodeError.fe, size |-> 0]
                          ELSE [st |-> "record", fe |-> d.fe, size |-> 8 + payloadLen]

\* The loop of processOldFile from currentOffset on; fatal: it did not
\* return, a panic ended the process.
RECURSIVE processOldFile(_, _, _, _)
processOldFile(filePath, content, currentOffset, kd) ==
    LET r == ReadRecord(content, currentOffset)
    IN  IF r.st = "eof" THEN [err |-> FALSE, fatal |-> FALSE, kd |-> kd]
        ELSE IF r.st = "error" THEN [err |-> TRUE, fatal |-> FALSE, kd |-> kd]
        ELSE IF r.st = "panic" THEN [err |-> TRUE, fatal |-> TRUE, kd |-> kd]
        ELSE processOldFile(filePath, content, currentOffset + r.size,
                            ApplyRecord(kd, r.fe, filePath, currentOffset, r.size))

\* sort.Slice by the integer in the name: the names in ascending order
RECURSIVE SortedNames(_)
SortedNames(S) ==
    IF S = {} THEN <<>>
    ELSE LET m == CHOOSE x \in S : \A y \in S : x <= y
         IN  <<m>> \o SortedNames(S \ {m})

(***************************************************************************)
(* The directory listing of BuildIndex.  A name is a sequence of character *)
(* codes ("0" is 48, "." is 46); an entry is its name, whether it is a     *)
(* sub-directory, and, for the segment file "<n>.data", the integer n (-1  *)
(* for any other entry, which carries its own content).                    *)
(***************************************************************************)
\* ".data"
DataSuffix == <<46, 100, 97, 116, 97>>

\* fmt.Sprintf("%d", n)
RECURSIVE Decimal(_)
Decimal(n) ==
    IF n < 10 THEN <<48 + n>> ELSE Decimal(n \div 10) \o <<48 + (n % 10)>>

\* fmt.Sprintf("%d.data", n)
FileName(n) == Decimal(n) \o DataSuffix

\* strings.HasSuffix
HasSuffix(name, suffix) ==
    /\ Len(name) >= Len(suffix)
    /\ SubSeq(name, Len(name) - Len(suffix) + 1, Len(name)) = suffix

\* strings.TrimSuffix
TrimSuffix(name, suffix) ==
    IF HasSuffix(name, suffix) THEN SubSeq(name, 1, Len(name) - Len(suffix))
    ELSE name

RECURSIVE DigitsValue(_)
DigitsValue(str) ==
    IF str = <<>> THEN 0
    ELSE 10 * DigitsValue(SubSeq(str, 1, Len(str) - 1)) + (str[Len(str)] - 48)

\* strconv.ParseInt(str, 10, 64), for strings without a sign and values in
\* range: the string must be one or more decimal digits
ParseInt(str) ==
    IF str # <<>> /\ \A i \in 1..Len(str) : str[i] \in 48..57
    THEN [err |-> FALSE, val |-> DigitsValue(str)]
    ELSE [err |-> TRUE, val |-> 0]

\* a < b on Go strings: bytewise lexicographic order
RECURSIVE StrLess(_, _)
StrLess(a, b) ==
    IF b = <<>> THEN FALSE
    ELSE IF a = <<>> THEN TRUE
    ELSE IF Head(a) # Head(b) THEN Head(a) < Head(b)
    ELSE StrLess(Tail(a), Tail(b))

SegmentEntry(n) ==
    [name |-> FileName(n), isDir |-> FALSE, seg |-> n, content |-> <<>>]

EntryContent(dsk, e) == IF e.seg \in DOMAIN dsk THEN dsk[e.seg] ELSE e.content

\* os.ReadDir: all the entries of the directory, sorted by filename
RECURSIVE SortByName(_)
SortByName(S) ==
    IF S = {} THEN <<>>
    ELSE LET m == CHOOSE x \in S : \A y \in S \ {x} : StrLess(x.name, y.name)
         IN  <<m>> \o SortByName(S \ {m})

ReadDir(dsk, oth) == SortByName({SegmentEntry(n) : n \in DOMAIN dsk} \cup oth)

\* the less function BuildIndex gives to sort.Slice
lessEntries(a, b) ==
    LET tsI == ParseInt(TrimSuffix(a.name, DataSuffix))
        tsJ == ParseInt(TrimSuffix(b.name, DataSuffix))
    IN  IF tsI.err \/ tsJ.err THEN StrLess(a.name, b.name)
        ELSE tsI.val < tsJ.val

\* The inner loop of an insertion sort: the last element of the sequence
\* moves down while it is less than the element before it.
RECURSIVE InsertLast(_)
InsertLast(es) ==
    LET n == Len(es)
    IN  IF n >= 2 /\ lessEntries(es[n], es[n - 1])
        THEN InsertLast(SubSeq(es, 1, n - 2) \o <<es[n]>>) \o <<es[n - 1]>>
        ELSE es

\* sort.Slice on a slice of at most 12 elements is an insertion sort (for
\* at most 6 elements in every release of Go): elements i = 2, 3, ... are
\* inserted in turn.
RECURSIVE InsertionSort(_, _)
InsertionSort(es, i) ==
    IF i > Len(es) THEN es
    ELSE InsertionSort(InsertLast(SubSeq(es, 1, i)) \o SubSeq(es, i + 1, Len(es)),
                       i + 1)

\* fileInfo.IsDir() || !strings.HasSuffix(fileInfo.Name(), ".data"): continue
Skipped(e) == e.isDir \/ ~HasSuffix(e.name, DataSuffix)

\* The entries that BuildIndex gives to processOldFile, in the order in
\* which it does.  On a directory that holds nothing but segment files
\* these are the segments in ascending order of their numbers, SortedNames.
ReplayOrder(dsk, oth) ==
    LET Kept(e) == ~Skipped(e)
    IN  SelectSeq(InsertionSort(ReadDir(dsk, oth), 2), Kept)

\* The loop of BuildIndex over the sorted files, stopping at the first error.
RECURSIVE ReplayFiles(_, _, _)
ReplayFiles(files, dsk, kd) ==
    IF files = <<>> THEN [err |-> FALSE, fatal |-> FALSE, kd |-> kd]
    ELSE LET r == processOldFile(Head(files), dsk[Head(files)], 0, kd)
         IN  IF r.err THEN r ELSE ReplayFiles(Tail(files), dsk, r.kd)

BuildIndexResult(kd, dsk) == ReplayFiles(SortedNames(DOMAIN dsk), dsk, kd)

(***************************************************************************)
(* History bookkeeping shared by the actions.                              *)
(***************************************************************************)
NoWrite == <<0>>
Deleted == <<0, 0>>

EmptyMap == [k \in {} |-> NoEntry]

Snapshot(kd, dsk) == [k \in Keys |-> GetResult(kd, dsk, k)]

NoSnapshot == [k \in Keys |-> GetError]

Ret(op, key, ok, val) == [op |-> op, key |-> key, ok |-> ok, val |-> val]

\* The scenario "puts and deletes on an engine opened on an empty directory;
\* close; open; build_index": the phase after a step, and the snapshot that
\* is kept while the scenario lasts.
AfterWrite(s) == IF s = "S" THEN "S" ELSE "other"
AfterClose(s) == IF s = "S" THEN "closed" ELSE "other"
AfterOpen(s) == IF s = "closed" THEN "reopened" ELSE "other"
AfterBuildIndex(s, ok) == IF s = "reopened" /\ ok THEN "rebuilt" ELSE "other"
KeepSnapshot(s, snap) ==
    IF s \in {"closed", "reopened", "rebuilt"} THEN snap ELSE NoSnapshot

\* A thread's call record: the call and its arguments, the number of
\* writes of the key that had returned when the call was made (floor) and
\* when its body ran (hi), the result, and the locals of putFileEntry
\* (offset, payload, tstamp) and of BuildIndex/processOldFile (files, off,
\* fe, size, existing).
NoCall ==
    [op |-> "none", key |-> <<>>, val |-> <<>>, floor |-> 0, hi |-> 0,
     done |-> FALSE, res |-> GetError,
     offset |-> 0, payload |-> <<>>, tstamp |-> 0,
     files |-> <<>>, off |-> 0, fe |-> DecodeError.fe, size |-> 0,
     existing |-> [ok |-> FALSE, Tstamp |-> 0]]

(***************************************************************************)
(* The handlers, called by one caller at a time.                           *)
(***************************************************************************)
\* the engine after NewBistcaskEngine on an empty directory; with one caller
\* at a time no call is ever in progress between two steps, so the table of
\* call frames and the per-key write histories stay empty
Init ==
    /\ now = 0
    /\ disk = [f \in {SegmentName(0)} |-> <<>>]
    /\ Keydir = EmptyMap
    /\ ActiveFile = OpenAppend(SegmentName(0))
    /\ MaxFileSize \in MaxFileSizes
    /\ ret = Ret("open", <<>>, TRUE, <<>>)
    /\ model = [k \in Keys |-> NoWrite]
    /\ rolled = {}
    /\ nputs = 0
    /\ nwrites = 0
    /\ nopens = 0
    /\ session = "S"
    /\ preClose = NoSnapshot
    /\ mu = 0
    /\ pc = <<>>
    /\ loc = <<>>
    /\ whist = <<>>
    /\ applied = [k \in Keys |-> NoWrite]
    /\ others = {}
    /\ codec = <<>>

\* the clock advances by a second
Tick ==
    /\ now < MaxClock
    /\ now' = now + 1
    /\ UNCHANGED <<disk, Keydir, ActiveFile, MaxFileSize, ret, model, rolled,
                   nputs, nwrites, nopens, session, preClose, applied, conc, env>>

\* a new engine that takes over the directory of the engine before it
NewKeydirKept == Keydir

\* Keydir: make(map[string]*KeyDir): the directory of a new engine is empty,
\* whatever the data directory holds
NewKeydir == EmptyMap

\* NewBistcaskEngine on the same data directory (a new process, or a new
\* engine value); the owner then sets the size cap of this deployment.
Open ==
    /\ nopens < MaxOpens
    /\ nopens' = nopens + 1
    /\ disk' = CreateIfAbsent(disk, SegmentName(now))
    /\ ActiveFile' = OpenAppend(SegmentName(now))
    /\ Keydir' = NewKeydir
    /\ ret' = Ret("open", <<>>, TRUE, <<>>)
    /\ model' = [k \in Keys |-> NoWrite]
    /\ session' = AfterOpen(session)
    /\ preClose' = KeepSnapshot(session', preClose)
    /\ UNCHANGED <<applied, now, MaxFileSize, rolled, nputs, nwrites, conc, env>>

Close ==
    /\ ActiveFile' = NilFile
    /\ ret' = Ret("close", <<>>, TRUE, <<>>)
    /\ session' = AfterClose(session)
    /\ preClose' = KeepSnapshot(session', Snapshot(Keydir, disk))
    /\ UNCHANGED <<applied, now, disk, Keydir, MaxFileSize, model, rolled, nputs,
                   nwrites, nopens, conc, env>>

Get(key) ==
    /\ ret' = LET g == GetResult(Keydir, disk, key) IN Ret("get", key, g.ok, g.val)
    /\ UNCHANGED <<now, disk, Keydir, ActiveFile, MaxFileSize, model, rolled,
                   nputs, nwrites, nopens, session, preClose, applied, conc, env>>

Put(key, value) ==
    /\ nwrites < MaxWrites \/ ActiveFile.state # "open"
    /\ \E w \in {putFileEntry(NewFileEntry(key, value, FALSE, now),
                             ActiveFile, disk, now, MaxFileSize)} :
           /\ disk' = w.dsk
           /\ ActiveFile' = w.af
           /\ Keydir' = IF w.err THEN Keydir ELSE KeydirSet(Keydir, key, w.entry)
           /\ ret' = Ret("put", key, ~w.err, value)
           /\ model' = IF w.err THEN model ELSE [model EXCEPT ![key] = value]
           /\ applied' = IF w.err THEN applied ELSE [applied EXCEPT ![key] = value]
           /\ rolled' = IF w.rollover THEN rolled \cup {ActiveFile.name} ELSE rolled
           /\ nputs' = IF w.err THEN nputs ELSE nputs + 1
           /\ nwrites' = IF w.err THEN nwrites ELSE nwrites + 1
    /\ session' = AfterWrite(session)
    /\ preClose' = KeepSnapshot(session', preClose)
    /\ UNCHANGED <<now, MaxFileSize, nopens, conc, env>>

Delete(key) ==
    /\ nwrites < MaxWrites \/ ActiveFile.state # "open" \/ ~KeyPresent(Keydir, key)
    /\ IF ~KeyPresent(Keydir, key)
       THEN /\ ret' = Ret("delete", key, FALSE, <<>>)
            /\ UNCHANGED <<disk, ActiveFile, Keydir, model, applied, rolled, nwrites>>
       ELSE \E w \in {putFileEntry(NewFileEntry(key, <<>>, TRUE, now),
                                      ActiveFile, disk, now, MaxFileSize)} :
                /\ disk' = w.dsk
                /\ ActiveFile' = w.af
                /\ Keydir' = IF w.err THEN Keydir ELSE KeydirDelete(Keydir, key)
                /\ ret' = Ret("delete", key, ~w.err, <<>>)
                /\ model' = IF w.err THEN model ELSE [model EXCEPT ![key] = Deleted]
                /\ applied' = IF w.err THEN applied
                               ELSE [applied EXCEPT ![key] = Deleted]
                /\ rolled' = IF w.rollover THEN rolled \cup {ActiveFile.name} ELSE rolled
                /\ nwrites' = IF w.err THEN nwrites ELSE nwrites + 1
    /\ session' = AfterWrite(session)
    /\ preClose' = KeepSnapshot(session', preClose)
    /\ UNCHANGED <<now, MaxFileSize, nputs, nopens, conc, env>>

\* BuildIndex from its call to its return (a panic has no return)
BuildIndex ==
    /\ \E r \in {BuildIndexResult(Keydir, disk)} :
           /\ ~r.fatal
           /\ Keydir' = r.kd
           /\ ret' = Ret("build_index", <<>>, ~r.err, <<>>)
           /\ session' = AfterBuildIndex(session, ~r.err)
    /\ preClose' = KeepSnapshot(session', preClose)
    /\ UNCHANGED <<applied, now, disk, ActiveFile, MaxFileSize, model, rolled, nputs,
                   nwrites, nopens, conc, env>>

(***************************************************************************)
(* The handlers on a filesystem whose calls can fail.  A failing call      *)
(* makes putFileEntry return its error at once; what the calls before it   *)
(* did stays done.  (The nbytes test of engine.go:236 cannot fail: Write    *)
(* returns an error whenever it writes fewer bytes than it was given.)     *)
(***************************************************************************)
\* The handle after ActiveFile.Close(): every later call on it fails.
ClosedFile(af) == [af EXCEPT !.state = "closed"]

\* Write of bytes that fails after n of them: the first n reach the file.
PartialBytes(bytes, n) == SubSeq(bytes, 1, IF n < Len(bytes) THEN n ELSE Len(bytes))

Failed(af, dsk, rollover) ==
    [err |-> TRUE, rollover |-> rollover, af |-> af, dsk |-> dsk, entry |-> NoEntry]

\* putFileEntry with the failure f injected at the call it names.
putFileEntryFault(fe, af, dsk, t, max, f) ==
    LET payload == Serialize(fe)
        payloadLen == Len(payload)
        lenBuf == PutUint64(payloadLen)
        totalLen == 8 + payloadLen
    IN  IF StatFails(af) \/ f.at = "stat" THEN Failed(af, dsk, FALSE)
        ELSE LET roll == NeedsRollover(Len(dsk[af.name]), totalLen, max)
             IN  IF roll /\ f.at \in {"close", "open"}
                 THEN Failed(ClosedFile(af), dsk, FALSE)
                 ELSE LET r == IF roll THEN rollOverActiveFile(af, dsk, t)
                                       ELSE [af |-> af, dsk |-> dsk]
                          offset == SeekCurrent(r.af)
                          wrote(bytes) ==
                              LET d2 == AppendBytes(r.dsk, r.af.name, bytes)
                              IN  Failed([r.af EXCEPT !.pos = Len(d2[r.af.name])],
                                         d2, roll)
                      IN  IF f.at = "seek" THEN Failed(r.af, r.dsk, roll)
                          ELSE IF f.at = "prefix"
                          THEN wrote(PartialBytes(lenBuf, f.n))
                          ELSE IF f.at = "payload"
                          THEN wrote(lenBuf \o PartialBytes(payload, f.n))
                          ELSE putFileEntry(fe, af, dsk, t, max)

\* The call that f names is made: Stat is the first call, the Close and the
\* Open of a rollover are made when the record does not fit, and nothing is
\* called once Stat has failed.
FaultReached(fe, af, dsk, max, f) ==
    \/ f.at = "none"
    \/ /\ ~StatFails(af)
       /\ f.at \in {"close", "open"}
              => NeedsRollover(Len(dsk[af.name]), 8 + Len(Serialize(fe)), max)

\* a Put that stores the locator whatever putFileEntry returned
KeydirAfterPutAlways(kd, key, w) == KeydirSet(kd, key, w.entry)

\* Put: on an error of putFileEntry it returns before be.Keydir[key] = ...
KeydirAfterPut(kd, key, w) == IF w.err THEN kd ELSE KeydirSet(kd, key, w.entry)

\* Delete: on an error of putFileEntry it returns before delete(be.Keydir, key)
KeydirAfterDelete(kd, key, w) == IF w.err THEN kd ELSE KeydirDelete(kd, key)

InitFault == Init

PutF(key, value, f) ==
    /\ nwrites < MaxWrites \/ StatFails(ActiveFile)
    /\ FaultReached(NewFileEntry(key, value, FALSE, now), ActiveFile, disk,
                    MaxFileSize, f)
    /\ \E w \in {putFileEntryFault(NewFileEntry(key, value, FALSE, now),
                                  ActiveFile, disk, now, MaxFileSize, f)} :
           /\ disk' = w.dsk
           /\ ActiveFile' = w.af
           /\ Keydir' = KeydirAfterPut(Keydir, key, w)
           /\ ret' = Ret("put", key, ~w.err, value)
           /\ model' = IF w.err THEN model ELSE [model EXCEPT ![key] = value]
           /\ applied' = IF w.err THEN applied ELSE [applied EXCEPT ![key] = value]
           /\ rolled' = IF w.rollover THEN rolled \cup {ActiveFile.name} ELSE rolled
           /\ nputs' = IF w.err THEN nputs ELSE nputs + 1
    /\ nwrites' = IF StatFails(ActiveFile) THEN nwrites ELSE nwrites + 1
    /\ session' = AfterWrite(session)
    /\ preClose' = KeepSnapshot(session', preClose)
    /\ UNCHANGED <<now, MaxFileSize, nopens, conc, env>>

DeleteF(key, f) ==
    /\ nwrites < MaxWrites \/ StatFails(ActiveFile) \/ ~KeyPresent(Keydir, key)
    /\ IF ~KeyPresent(Keydir, key)
       THEN /\ f.at = "none"
            /\ ret' = Ret("delete", key, FALSE, <<>>)
            /\ UNCHANGED <<disk, ActiveFile, Keydir, model, applied, rolled, nwrites>>
       ELSE \E w \in {putFileEntryFault(NewFileEntry(key, <<>>, TRUE, now),
                                           ActiveFile, disk, now, MaxFileSize, f)} :
                /\ disk' = w.dsk
                /\ ActiveFile' = w.af
                /\ Keydir' = KeydirAfterDelete(Keydir, key, w)
                /\ ret' = Ret("delete", key, ~w.err, <<>>)
                /\ model' = IF w.err THEN model ELSE [model EXCEPT ![key] = Deleted]
                /\ applied' = IF w.err THEN applied
                               ELSE [applied EXCEPT ![key] = Deleted]
                /\ rolled' = IF w.rollover THEN rolled \cup {ActiveFile.name} ELSE rolled
                /\ nwrites' = IF StatFails(ActiveFile) THEN nwrites ELSE nwrites + 1
                /\ FaultReached(NewFileEntry(key, <<>>, TRUE, now), ActiveFile,
                                disk, MaxFileSize, f)
    /\ session' = AfterWrite(session)
    /\ preClose' = KeepSnapshot(session', preClose)
    /\ UNCHANGED <<now, MaxFileSize, nputs, nopens, conc, env>>

NextFault ==
    \/ Tick
    \/ Close
    \/ \E k \in Keys, v \in Values, f \in Faults : PutF(k, v, f)
    \/ \E k \in Keys, f \in Faults : DeleteF(k, f)
    \/ BuildIndex

SpecFault == InitFault /\ [][NextFault]_vars

(***************************************************************************)
(* The codec on its own: a record is serialized and the bytes are          *)
(* deserialized, as TestFileEntry_SerializeDeserialize does.               *)
(***************************************************************************)
\* The records given to Serialize: every field drawn on its own, so that the
\* sizes and the checksum need not agree with the key and the value.
CodecRecords ==
    [Crc : {0, 9, 255}, Tstamp : {0, 1, 200}, Ksz : {0, 1, 2}, ValueSz : {0, 2},
     Key : {<<>>, <<1>>, <<1, 2>>}, Value : {<<>>, <<7>>, <<8, 8>>},
     IsTombstone : BOOLEAN]

InitCodec ==
    /\ now = 0
    /\ disk = [f \in {SegmentName(0)} |-> <<>>]
    /\ Keydir = EmptyMap
    /\ ActiveFile = OpenAppend(SegmentName(0))
    /\ MaxFileSize = DefaultMaxFileSize
    /\ ret = Ret("open", <<>>, TRUE, <<>>)
    /\ model = [k \in Keys |-> NoWrite]
    /\ rolled = {}
    /\ nputs = 0
    /\ nwrites = 0
    /\ nopens = 0
    /\ session = "other"
    /\ preClose = NoSnapshot
    /\ mu = 0
    /\ pc = <<>>
    /\ loc = <<>>
    /\ whist = <<>>
    /\ applied = [k \in Keys |-> NoWrite]
    /\ others = {}
    /\ codec \in {[st |-> "record", R |-> r, buf |-> <<>>, out |-> DecodeError] :
                      r \in CodecRecords}

\* data, err := original.Serialize()
EncodeRecord ==
    /\ codec.st = "record"
    /\ codec' = [codec EXCEPT !.st = "encoded", !.buf = Serialize(codec.R)]
    /\ UNCHANGED <<now, disk, Keydir, ActiveFile, MaxFileSize, rolled, nwrites,
                   seq, conc, others>>

\* deserialized, err := DeserializeFileEntry(data)
DecodeBuffer ==
    /\ codec.st = "encoded"
    /\ codec' = [codec EXCEPT !.st = "decoded",
                              !.out = DeserializeFileEntry(codec.buf)]
    /\ UNCHANGED <<now, disk, Keydir, ActiveFile, MaxFileSize, rolled, nwrites,
                   seq, conc, others>>

NextCodec ==
    \/ EncodeRecord
    \/ DecodeBuffer

SpecCodec == InitCodec /\ [][NextCodec]_vars

Next ==
    \/ Tick
    \/ Open
    \/ Close
    \/ \E k \in Keys : Get(k)
    \/ \E k \in Keys, v \in Values : Put(k, v)
    \/ \E k \in Keys : Delete(k)
    \/ BuildIndex

Spec == Init /\ [][Next]_vars

(***************************************************************************)
(* The same handlers called from several threads.  Put, Get, Delete and    *)
(* Close lock be.mu on entry and unlock it on return; BuildIndex and       *)
(* processOldFile never lock it.  A handler is cut where another thread    *)
(* can observe the difference: between the two Writes of putFileEntry,     *)
(* between the records BuildIndex reads, and between its lookup in the     *)
(* directory and the update that follows.                                  *)
(***************************************************************************)
LockedOps == {"put", "delete", "get", "close"}

\* a return that leaves be.mu locked by the thread
NoUnlock(t) == t

\* defer be.mu.Unlock(): be.mu after the handler of thread t has returned
AfterUnlock(t) == 0

\* writes that have been called and have not returned
PendingWrites ==
    Cardinality({t \in Threads : pc[t] \in {"wait", "body", "body2"}
                                  /\ loc[t].op \in {"put", "delete"}})

\* the effect a write has on later gets of its key
Effect(op, value) == IF op = "put" THEN [ok |-> TRUE, val |-> value] ELSE GetError

Returned(t, ok, val) ==
    [loc[t] EXCEPT !.done = TRUE, !.res = [ok |-> ok, val |-> val]]

InitConc ==
    /\ now = 0
    /\ disk = [f \in {SegmentName(0)} |-> <<>>]
    /\ Keydir = EmptyMap
    /\ ActiveFile = OpenAppend(SegmentName(0))
    /\ MaxFileSize = DefaultMaxFileSize
    /\ ret = Ret("open", <<>>, TRUE, <<>>)
    /\ model = [k \in Keys |-> NoWrite]
    /\ rolled = {}
    /\ nputs = 0
    /\ nwrites = 0
    /\ nopens = 0
    /\ session = "other"
    /\ preClose = NoSnapshot
    /\ mu = 0
    /\ pc = [t \in Threads |-> "idle"]
    /\ loc = [t \in Threads |-> NoCall]
    /\ whist = [k \in Keys |-> <<>>]
    /\ applied = [k \in Keys |-> NoWrite]
    /\ others = {}
    /\ codec = <<>>

CTick ==
    /\ now < MaxClock
    /\ \A t \in Threads : pc[t] # "dead"
    /\ now' = now + 1
    /\ UNCHANGED <<disk, Keydir, ActiveFile, MaxFileSize, rolled, nwrites, seq,
                   conc, env>>

\* a thread calls Put, Delete, Get or Close and blocks in be.mu.Lock()
CallLocked(t, op, key, value) ==
    /\ pc[t] = "idle"
    /\ op \in {"put", "delete"} => nwrites + PendingWrites < MaxWrites
    /\ pc' = [pc EXCEPT ![t] = "wait"]
    /\ loc' = [loc EXCEPT ![t] = [NoCall EXCEPT !.op = op, !.key = key, !.val = value,
                                                 !.floor = Len(whist[key])]]
    /\ UNCHANGED <<now, disk, Keydir, ActiveFile, MaxFileSize, rolled, nwrites,
                   seq, env, mu, whist>>

\* be.mu.Lock() returns
Acquire(t) ==
    /\ pc[t] = "wait"
    /\ mu = 0
    /\ mu' = t
    /\ pc' = [pc EXCEPT ![t] = "body"]
    /\ UNCHANGED <<now, disk, Keydir, ActiveFile, MaxFileSize, rolled, nwrites,
                   seq, env, loc, whist>>

\* Get under the lock, to its return
GetBody(t) ==
    /\ pc[t] = "body" /\ loc[t].op = "get"
    /\ LET g == GetResult(Keydir, disk, loc[t].key)
       IN  loc' = [loc EXCEPT ![t] = [Returned(t, g.ok, g.val)
                                          EXCEPT !.hi = Len(whist[loc[t].key])]]
    /\ mu' = AfterUnlock(t)
    /\ pc' = [pc EXCEPT ![t] = "idle"]
    /\ UNCHANGED <<now, disk, Keydir, ActiveFile, MaxFileSize, rolled, nwrites,
                   seq, env, whist>>

\* Close under the lock, to its return
CloseBody(t) ==
    /\ pc[t] = "body" /\ loc[t].op = "close"
    /\ ActiveFile' = NilFile
    /\ loc' = [loc EXCEPT ![t] = Returned(t, TRUE, <<>>)]
    /\ mu' = AfterUnlock(t)
    /\ pc' = [pc EXCEPT ![t] = "idle"]
    /\ UNCHANGED <<now, disk, Keydir, MaxFileSize, rolled, nwrites, seq, env,
                   whist>>

\* Put or Delete under the lock, up to and including Write(lenBuf); an
\* error on the way unlocks and returns
WriteBody(t) ==
    /\ pc[t] = "body" /\ loc[t].op \in {"put", "delete"}
    /\ IF loc[t].op = "delete" /\ ~KeyPresent(Keydir, loc[t].key)
       THEN /\ loc' = [loc EXCEPT ![t] = Returned(t, FALSE, <<>>)]
            /\ mu' = AfterUnlock(t)
            /\ pc' = [pc EXCEPT ![t] = "idle"]
            /\ UNCHANGED <<disk, ActiveFile, rolled>>
       ELSE LET fe == NewFileEntry(loc[t].key,
                                   IF loc[t].op = "put" THEN loc[t].val ELSE <<>>,
                                   loc[t].op = "delete", now)
            IN  \E p \in {putFileEntryPrefix(fe, ActiveFile, disk, now, MaxFileSize)} :
                IF p.err
                THEN /\ loc' = [loc EXCEPT ![t] = Returned(t, FALSE, <<>>)]
                     /\ mu' = AfterUnlock(t)
                     /\ pc' = [pc EXCEPT ![t] = "idle"]
                     /\ UNCHANGED <<disk, ActiveFile, rolled>>
                ELSE /\ disk' = p.dsk
                     /\ ActiveFile' = p.af
                     /\ rolled' = IF p.rollover THEN rolled \cup {ActiveFile.name}
                                  ELSE rolled
                     /\ loc' = [loc EXCEPT ![t].offset = p.offset,
                                           ![t].payload = p.payload,
                                           ![t].tstamp = p.tstamp]
                     /\ pc' = [pc EXCEPT ![t] = "body2"]
                     /\ UNCHANGED mu
    /\ UNCHANGED <<now, Keydir, MaxFileSize, nwrites, seq, env, whist>>

\* the rest of Put or Delete: Write(payload), the update of the directory,
\* unlock and return
WriteBody2(t) ==
    /\ pc[t] = "body2"
    /\ \E q \in {putFileEntryPayload(ActiveFile, disk, loc[t].offset,
                                    loc[t].payload, loc[t].tstamp)} :
           /\ disk' = q.dsk
           /\ ActiveFile' = q.af
           /\ Keydir' = IF loc[t].op = "put"
                        THEN KeydirSet(Keydir, loc[t].key, q.entry)
                        ELSE KeydirDelete(Keydir, loc[t].key)
    /\ whist' = [whist EXCEPT ![loc[t].key] =
                     Append(@, Effect(loc[t].op, loc[t].val))]
    /\ nwrites' = nwrites + 1
    /\ loc' = [loc EXCEPT ![t] = Returned(t, TRUE, loc[t].val)]
    /\ mu' = AfterUnlock(t)
    /\ pc' = [pc EXCEPT ![t] = "idle"]
    /\ UNCHANGED <<now, MaxFileSize, rolled, seq, env>>

\* a thread calls BuildIndex: os.ReadDir and sort.Slice, without the lock
CallBuildIndex(t) ==
    /\ pc[t] = "idle"
    /\ pc' = [pc EXCEPT ![t] = "bi_read"]
    /\ loc' = [loc EXCEPT ![t] = [NoCall EXCEPT !.op = "build_index",
                                                 !.files = ReplayOrder(disk, others)]]
    /\ UNCHANGED <<now, disk, Keydir, ActiveFile, MaxFileSize, rolled, nwrites,
                   seq, env, mu, whist>>

\* processOldFile reads the next framed record of the current file; at the
\* end of the file BuildIndex goes on to the next one, after the last file
\* it returns, a read or decode error makes it return the error, and a
\* panic in make ends the process
BIRead(t) ==
    /\ pc[t] = "bi_read"
    /\ IF loc[t].files = <<>>
       THEN /\ loc' = [loc EXCEPT ![t] = Returned(t, TRUE, <<>>)]
            /\ pc' = [pc EXCEPT ![t] = "idle"]
       ELSE \E r \in {ReadRecord(EntryContent(disk, Head(loc[t].files)), loc[t].off)} :
                IF r.st = "eof"
                THEN /\ loc' = [loc EXCEPT ![t].files = Tail(@), ![t].off = 0]
                     /\ UNCHANGED pc
                ELSE IF r.st = "error"
                THEN /\ loc' = [loc EXCEPT ![t] = Returned(t, FALSE, <<>>)]
                     /\ pc' = [pc EXCEPT ![t] = "idle"]
                ELSE IF r.st = "panic"
                THEN /\ pc' = [u \in Threads |-> "dead"]
                     /\ UNCHANGED loc
                ELSE /\ loc' = [loc EXCEPT ![t].fe = r.fe, ![t].size = r.size]
                     /\ pc' = [pc EXCEPT ![t] = "bi_lookup"]
    /\ UNCHANGED <<now, disk, Keydir, ActiveFile, MaxFileSize, rolled, nwrites,
                   seq, env, mu, whist>>

\* existingKeyDirEntry, ok := be.Keydir[fe.Key]
BILookup(t) ==
    /\ pc[t] = "bi_lookup"
    /\ loc' = [loc EXCEPT ![t].existing = Lookup(Keydir, loc[t].fe.Key)]
    /\ pc' = [pc EXCEPT ![t] = "bi_update"]
    /\ UNCHANGED <<now, disk, Keydir, ActiveFile, MaxFileSize, rolled, nwrites,
                   seq, env, mu, whist>>

\* the delete or the assignment that follows the lookup
BIUpdate(t) ==
    /\ pc[t] = "bi_update"
    /\ Keydir' = ApplyRecordSeen(Keydir, loc[t].fe, loc[t].existing,
                                 Head(loc[t].files).seg, loc[t].off, loc[t].size)
    /\ loc' = [loc EXCEPT ![t].off = @ + loc[t].size]
    /\ pc' = [pc EXCEPT ![t] = "bi_read"]
    /\ UNCHANGED <<now, disk, ActiveFile, MaxFileSize, rolled, nwrites, seq, env,
                   mu, whist>>

\* a thread is in a handler that reads or writes the directory or the
\* active-file handle
InEngine(t) ==
    \/ pc[t] \in {"body", "body2"}
    \/ pc[t] = "bi_update"

\* Unsynchronised accesses of a Go map from two threads are a data race: the
\* threads may go on as if nothing happened (the steps above), or the
\* runtime detects the race and ends the process ("concurrent map writes").
MapRaceFatal ==
    /\ \E t1, t2 \in Threads :
           /\ t1 # t2
           /\ pc[t1] \in {"bi_lookup", "bi_update"}
           /\ \/ pc[t2] \in {"bi_lookup", "bi_update"}
              \/ pc[t2] \in {"body", "body2"} /\ loc[t2].op \in {"put", "delete", "get"}
    /\ pc' = [t \in Threads |-> "dead"]
    /\ mu' = 0
    /\ UNCHANGED <<now, disk, Keydir, ActiveFile, MaxFileSize, rolled, nwrites,
                   seq, env, loc, whist>>

NextConc ==
    \/ CTick
    \/ \E t \in Threads, op \in LockedOps, k \in Keys, v \in Values :
           CallLocked(t, op, k, v)
    \/ \E t \in Threads : Acquire(t)
    \/ \E t \in Threads : GetBody(t)
    \/ \E t \in Threads : CloseBody(t)
    \/ \E t \in Threads : WriteBody(t)
    \/ \E t \in Threads : WriteBody2(t)
    \/ \E t \in Threads : CallBuildIndex(t)
    \/ \E t \in Threads : BIRead(t)
    \/ \E t \in Threads : BILookup(t)
    \/ \E t \in Threads : BIUpdate(t)
    \/ MapRaceFatal

SpecConc == InitConc /\ [][NextConc]_vars

(***************************************************************************)
(* Callers of Put, Get, Delete and Close on a filesystem whose calls       *)
(* return, with success or with an error.  A thread that holds be.mu goes  *)
(* on (its filesystem calls return), and sync.Mutex hands the lock to a    *)
(* thread that keeps waiting (starvation mode), whoever else asks for it.  *)
(***************************************************************************)
\* the record a thread is writing
EntryOf(t) ==
    NewFileEntry(loc[t].key, IF loc[t].op = "put" THEN loc[t].val ELSE <<>>,
                 loc[t].op = "delete", now)

\* Put or Delete under the lock when Stat, the Close or the Open of a
\* rollover, Seek or Write(lenBuf) fails: putFileEntry returns the error,
\* the handler returns it and unlocks
WriteBodyFails(t, f) ==
    /\ pc[t] = "body" /\ loc[t].op \in {"put", "delete"}
    /\ loc[t].op = "delete" => KeyPresent(Keydir, loc[t].key)
    /\ ~StatFails(ActiveFile)
    /\ f.at \in {"stat", "close", "open", "seek", "prefix"}
    /\ FaultReached(EntryOf(t), ActiveFile, disk, MaxFileSize, f)
    /\ \E w \in {putFileEntryFault(EntryOf(t), ActiveFile, disk, now, MaxFileSize, f)} :
           /\ disk' = w.dsk
           /\ ActiveFile' = w.af
           /\ rolled' = IF w.rollover THEN rolled \cup {ActiveFile.name} ELSE rolled
    /\ nwrites' = nwrites + 1
    /\ loc' = [loc EXCEPT ![t] = Returned(t, FALSE, <<>>)]
    /\ mu' = AfterUnlock(t)
    /\ pc' = [pc EXCEPT ![t] = "idle"]
    /\ UNCHANGED <<now, Keydir, MaxFileSize, seq, env, whist>>

\* the rest of Put or Delete when Write(payload) fails part-way
WriteBody2Fails(t, f) ==
    /\ pc[t] = "body2"
    /\ f.at = "payload"
    /\ LET d2 == AppendBytes(disk, ActiveFile.name, PartialBytes(loc[t].payload, f.n))
       IN  /\ disk' = d2
           /\ ActiveFile' = [ActiveFile EXCEPT !.pos = Len(d2[ActiveFile.name])]
    /\ nwrites' = nwrites + 1
    /\ loc' = [loc EXCEPT ![t] = Returned(t, FALSE, <<>>)]
    /\ mu' = AfterUnlock(t)
    /\ pc' = [pc EXCEPT ![t] = "idle"]
    /\ UNCHANGED <<now, Keydir, MaxFileSize, rolled, seq, env, whist>>

\* the engine with a size cap that makes the second or the third write
\* roll over
InitLocked ==
    /\ now = 0
    /\ disk = [f \in {SegmentName(0)} |-> <<>>]
    /\ Keydir = EmptyMap
    /\ ActiveFile = OpenAppend(SegmentName(0))
    /\ MaxFileSize \in MaxFileSizes
    /\ ret = Ret("open", <<>>, TRUE, <<>>)
    /\ model = [k \in Keys |-> NoWrite]
    /\ rolled = {}
    /\ nputs = 0
    /\ nwrites = 0
    /\ nopens = 0
    /\ session = "other"
    /\ preClose = NoSnapshot
    /\ mu = 0
    /\ pc = [t \in Threads |-> "idle"]
    /\ loc = [t \in Threads |-> NoCall]
    /\ whist = [k \in Keys |-> <<>>]
    /\ applied = [k \in Keys |-> NoWrite]
    /\ others = {}
    /\ codec = <<>>

\* the one key and the one value the callers use
LockedKey == CHOOSE k \in Keys : \A j \in Keys : Len(k) <= Len(j) /\ k[1] <= j[1]
LockedValue == CHOOSE v \in Values : \A u \in Values : Len(v) <= Len(u)

NextLocked ==
    \/ CTick
    \/ \E t \in Threads, op \in LockedOps : CallLocked(t, op, LockedKey, LockedValue)
    \/ \E t \in Threads : Acquire(t)
    \/ \E t \in Threads : GetBody(t)
    \/ \E t \in Threads : CloseBody(t)
    \/ \E t \in Threads : WriteBody(t)
    \/ \E t \in Threads : WriteBody2(t)
    \/ \E t \in Threads, f \in Faults : WriteBodyFails(t, f)
    \/ \E t \in Threads, f \in Faults : WriteBody2Fails(t, f)

\* the steps of a thread that holds be.mu
LockedStep(t) ==
    \/ GetBody(t)
    \/ CloseBody(t)
    \/ WriteBody(t)
    \/ WriteBody2(t)
    \/ \E f \in Faults : WriteBodyFails(t, f)
    \/ \E f \in Faults : WriteBody2Fails(t, f)

SpecLocked ==
    /\ InitLocked
    /\ [][NextLocked]_vars
    /\ \A t \in Threads : WF_vars(LockedStep(t)) /\ SF_vars(Acquire(t))

(***************************************************************************)
(* BuildIndex and Get on data directories that were not written by this    *)
(* model's engine: segment files laid out by hand, whose records carry     *)
(* timestamps that need not agree with the file names, and entries that    *)
(* are no segment files.  One thread calls, so BuildIndex runs from its    *)
(* call to its return without any other handler in between; its steps are  *)
(* those of the concurrent specification.                                  *)
(***************************************************************************)
Caller == CHOOSE t \in Threads : \A u \in Threads : t <= u

\* The full frame of a record: length prefix and payload.
Frame(fe) == PutUint64(Len(Serialize(fe))) \o Serialize(fe)

\* Timestamps inside the hand-made records, and the names of the segments.
ReplayTstamps == {10, 20}
ReplaySegments == {10, 20}

\* puts and tombstones of one key
ReplayRecords ==
    {NewFileEntry(<<1>>, v, FALSE, t) : v \in Values, t \in ReplayTstamps}
        \cup {NewFileEntry(<<1>>, <<>>, TRUE, t) : t \in ReplayTstamps}

\* a segment file of no, one or two records
SegmentContents ==
    {<<>>} \cup {Frame(a) : a \in ReplayRecords}
           \cup {Frame(a) \o Frame(b) : a, b \in ReplayRecords}

\* a segment file of at most one record
ShortContents == {<<>>} \cup {Frame(a) : a \in ReplayRecords}

\* Segments whose names differ in length, and entries that are no segment
\* files: a file "5x" (53, 120), a file "x.data" that holds three bytes of
\* something else, and a sub-directory "sub".
ListedSegments == {9, 10}
ForeignEntries ==
    {[name |-> <<53, 120>>, isDir |-> FALSE, seg |-> -1, content |-> <<>>],
     [name |-> <<120>> \o DataSuffix, isDir |-> FALSE, seg |-> -1,
      content |-> <<1, 2, 3>>],
     [name |-> <<115, 117, 98>>, isDir |-> TRUE, seg |-> -1, content |-> <<>>]}

\* NewBistcaskEngine, at the second of the newest segment, on a directory
\* that holds the segment files dsk and the other entries oth
OpenedOn(dsk, oth) ==
    /\ now = CHOOSE n \in DOMAIN dsk : \A m \in DOMAIN dsk : m <= n
    /\ disk = dsk
    /\ Keydir = EmptyMap
    /\ ActiveFile = OpenAppend(SegmentName(now))
    /\ MaxFileSize = DefaultMaxFileSize
    /\ ret = Ret("open", <<>>, TRUE, <<>>)
    /\ model = [k \in Keys |-> NoWrite]
    /\ rolled = {}
    /\ nputs = 0
    /\ nwrites = 0
    /\ nopens = 0
    /\ session = "other"
    /\ preClose = NoSnapshot
    /\ mu = 0
    /\ pc = [t \in Threads |-> "idle"]
    /\ loc = [t \in Threads |-> NoCall]
    /\ whist = [k \in Keys |-> <<>>]
    /\ applied = [k \in Keys |-> NoWrite]
    /\ others = oth
    /\ codec = <<>>

InitReplay ==
    \E dsk \in [ReplaySegments -> SegmentContents] : OpenedOn(dsk, {})

InitDir ==
    \E dsk \in [ListedSegments -> ShortContents], oth \in SUBSET ForeignEntries :
        OpenedOn(dsk, oth)

NextReplay ==
    \/ CallBuildIndex(Caller)
    \/ BIRead(Caller)
    \/ BILookup(Caller)
    \/ BIUpdate(Caller)
    \/ \E k \in Keys : CallLocked(Caller, "get", k, <<>>)
    \/ Acquire(Caller)
    \/ GetBody(Caller)

SpecReplay == InitReplay /\ [][NextReplay]_vars

SpecDir == InitDir /\ [][NextReplay]_vars

(***************************************************************************)
(* BuildIndex on segment files that are cut short or damaged: a whole      *)
(* record or none, and then a tail that is no whole record.                *)
(***************************************************************************)
\* the frame that is cut short
TornFrame == Frame(NewFileEntry(<<2>>, <<8, 8>>, FALSE, 20))

\* how many bytes of it are left: inside the prefix, the prefix alone,
\* inside the payload
TornLengths == {3, 8, 12}

\* a frame whose three payload bytes are no gob message
UndecodableFrame == PutUint64(3) \o <<1, 2, 3>>

\* a prefix of eight bytes 255 (a length of 2^64 - 1) and one byte after it
HugePrefixTail == <<255, 255, 255, 255, 255, 255, 255, 255, 5>>

DamagedTails ==
    {SubSeq(TornFrame, 1, n) : n \in TornLengths}
        \cup {UndecodableFrame, UndecodableFrame \o TornFrame, PutUint64(0),
              HugePrefixTail}

DamagedContents == {h \o tl : h \in ShortContents, tl \in DamagedTails}

InitCorrupt ==
    \E dsk \in [ReplaySegments -> ShortContents \cup DamagedContents] :
        OpenedOn(dsk, {})

SpecCorrupt == InitCorrupt /\ [][NextReplay]_vars


(***************************************************************************)
(* Properties of the single-caller engine.                                 *)
(***************************************************************************)
Got(v) == [ok |-> TRUE, val |-> v]

\* C1 - Round-trip: right after a put(K,V) that returned success, get(K)
\* returns V, whatever puts, deletes, rollovers and reopenings came before
\* and whatever the clock reads.
C1_RoundTrip ==
    (ret.op = "put" /\ ret.ok) => GetResult(Keydir, disk, ret.key) = Got(ret.val)

\* C2 - Last-writer-wins: for every key whose last successful write on this
\* engine is a put, get returns the value of that put (the engine behaves
\* as a key -> value map).
C2_LastWriterWins ==
    \A k \in Keys :
        model[k] \notin {NoWrite, Deleted} => GetResult(Keydir, disk, k) = Got(model[k])

\* C3 - Delete erases: a key whose last successful write on this engine is
\* a delete (after a put) is not returned by get: get fails for it until
\* the next successful put of that key.
C3_DeleteErases ==
    \A k \in Keys : model[k] = Deleted => ~GetResult(Keydir, disk, k).ok

C3_Witness ==
    /\ ret.op = "get" /\ ~ret.ok
    /\ model[ret.key] = Deleted
    /\ \E f \in DOMAIN disk : disk[f] # <<>>

\* C4 - Delete of an absent key fails: a delete(K) with K not in the
\* directory returns an error, appends nothing to any segment file and
\* leaves the directory unchanged.
C4_DeleteAbsentFails ==
    [][\A k \in Keys :
          (k \notin DOMAIN Keydir /\ ret'.op = "delete" /\ Delete(k))
              => (~ret'.ok /\ disk' = disk /\ Keydir' = Keydir)]_vars

C4_Witness ==
    /\ ret.op = "delete" /\ ~ret.ok
    /\ ActiveFile.state = "open"
    /\ model[ret.key] = Deleted

\* C5 - Persistence: after puts and deletes on an engine opened on an empty
\* directory, close, open and build_index, get returns for every key what
\* the first engine returned just before close.
C5_Persistence ==
    session = "rebuilt" => \A k \in Keys : GetResult(Keydir, disk, k) = preClose[k]

\* A complete framed record at offset off of a file, size bytes long, whose
\* payload decodes to a live record of the key.
FramedRecordAt(content, off, size, key) ==
    /\ size >= 8
    /\ off + size <= Len(content)
    /\ Uint64(SubSeq(content, off + 1, off + 8)) = size - 8
    /\ LET d == DeserializeFileEntry(SubSeq(content, off + 9, off + size))
       IN  ~d.err /\ d.fe.Key = key /\ ~d.fe.IsTombstone

\* C6 - Directory invariant: every locator in the directory designates a
\* complete framed record of its file whose decoded key is the locator's key
\* and whose tombstone flag is false.
C6_DirectoryInvariant ==
    \A k \in DOMAIN Keydir :
        /\ Keydir[k].FileID \in DOMAIN disk
        /\ FramedRecordAt(disk[Keydir[k].FileID], Keydir[k].ValuePos,
                          Keydir[k].ValueSz, k)

\* C9 - A segment that a rollover has closed is never the active segment
\* again, so no later put or delete appends to it: a rollover always opens
\* a file under a new name, also within one clock second.
C9_ClosedSegmentNeverActive ==
    ActiveFile.state = "open" => ActiveFile.name \notin rolled

\* every framed record the callers can write is longer than half the cap
AllFramesExceedHalf(max) ==
    \A k \in Keys, v \in Values \cup {<<>>} :
        2 * (8 + Len(Serialize(NewFileEntry(k, v, v = <<>>, 0)))) > max

\* C10 - Rollover produces at least two segments: with a size cap below
\* twice the size of every framed record, after two successful puts the
\* data directory holds at least two segment files.
C10_TwoSegments ==
    (session = "S" /\ AllFramesExceedHalf(MaxFileSize) /\ nputs >= 2)
        => Cardinality(DOMAIN disk) >= 2

\* C11 - Open does not rebuild the directory: right after an open, also on a
\* data directory whose segment files hold live keys, the directory is empty
\* and get fails for every key.
C11_OpenDoesNotRebuild ==
    ret.op = "open"
        => (Keydir = EmptyMap /\ \A k \in Keys : ~GetResult(Keydir, disk, k).ok)

C11_Witness ==
    /\ ret.op = "open"
    /\ nopens >= 1
    /\ \E k \in Keys :
           GetResult(BuildIndexResult(EmptyMap, disk).kd, disk, k).ok

\* C12 - Open always creates a new active segment: the file that is active
\* after an open did not exist in the data directory before the call and is
\* empty, also when the engine before it was opened or rolled over in the
\* same clock second.
C12_OpenCreatesNewSegment ==
    [][Open => (/\ ActiveFile'.name \notin DOMAIN disk
                /\ disk'[ActiveFile'.name] = <<>>)]_vars

\* C14 - After close: on an engine whose Close has returned, every put and
\* every delete returns an error and changes neither the directory nor any
\* segment file.
C14_WritesFailAfterClose ==
    [][(/\ ActiveFile.state = "nil"
        /\ ret'.op \in {"put", "delete"}
        /\ \/ ret'.op = "put" /\ \E v \in Values : Put(ret'.key, v)
           \/ ret'.op = "delete" /\ Delete(ret'.key))
           => (~ret'.ok /\ disk' = disk /\ Keydir' = Keydir)]_vars

C14_Witness ==
    /\ ActiveFile.state = "nil"
    /\ ret.op = "delete" /\ ~ret.ok
    /\ ret.key \in DOMAIN Keydir

\* C20 - Locator produced by the write path: a successful put(K, V) leaves
\* for K the locator (active segment, length of that file just before the
\* frame was written, 8 + payload length, the record's timestamp), also for
\* the first write through a handle opened on a file that was not empty.
C20_WriteLocator ==
    [][\A k \in Keys, v \in Values :
          (ret'.op = "put" /\ ret'.ok /\ Put(k, v))
              => LET total == 8 + Len(Serialize(NewFileEntry(k, v, FALSE, now)))
                 IN  Keydir'[k] =
                         [FileID |-> ActiveFile'.name,
                          ValueSz |-> total,
                          ValuePos |-> Len(disk'[ActiveFile'.name]) - total,
                          Tstamp |-> now]]_vars

\* The timestamps of the records of a key that a scan of a file from
\* currentOffset on decodes.
RECURSIVE TstampsIn(_, _, _)
TstampsIn(content, currentOffset, key) ==
    LET r == ReadRecord(content, currentOffset)
    IN  IF r.st # "record" THEN {}
        ELSE (IF r.fe.Key = key THEN {r.fe.Tstamp} ELSE {})
                 \cup TstampsIn(content, currentOffset + r.size, key)

KeyTstamps(dsk, key) == UNION {TstampsIn(dsk[f], 0, key) : f \in DOMAIN dsk}

\* what get returns for a key of a map to which the puts and deletes were
\* applied in the order of their execution
MapGet(m, key) == IF m[key] \in {NoWrite, Deleted} THEN GetError ELSE Got(m[key])

\* C18 - Recovery equals sequential application: whatever puts and deletes
\* the engines on a data directory executed (non-decreasing clock, rollovers,
\* close and reopen in between), build_index on an empty directory gives for
\* every key the get result of the map to which the successful puts and
\* deletes were applied in execution order, and every locator it builds
\* points at a record of its key whose timestamp is maximal among the key's
\* records.
C18_RecoveryEqualsSequential ==
    LET r == BuildIndexResult(EmptyMap, disk)
    IN  \A k \in Keys :
            /\ GetResult(r.kd, disk, k) = MapGet(applied, k)
            /\ k \in DOMAIN r.kd =>
                   LET ts == KeyTstamps(disk, k)
                       rec == ReadRecord(disk[r.kd[k].FileID], r.kd[k].ValuePos)
                   IN  /\ FramedRecordAt(disk[r.kd[k].FileID], r.kd[k].ValuePos,
                                         r.kd[k].ValueSz, k)
                       /\ rec.fe.Tstamp \in ts
                       /\ \A t \in ts : t <= rec.fe.Tstamp

\* two records of one key, written at different seconds by two engines into
\* two segments, and a build_index after them
C18_Witness ==
    /\ nopens >= 1
    /\ Cardinality(DOMAIN disk) >= 2
    /\ \E k \in Keys :
           /\ applied[k] \notin {NoWrite, Deleted}
           /\ Cardinality(KeyTstamps(disk, k)) >= 2
    /\ ret.op = "build_index" /\ ret.ok

\* a segment file holds bytes that the scan of build_index cannot read
PartialRecordOnDisk == BuildIndexResult(EmptyMap, disk).err

\* C13 - A put or delete that returns an error, whichever filesystem call
\* failed (stat, the close or the open of a rollover, seek, the write of the
\* prefix or of the payload), leaves the directory as it was, for every key.
C13_FailedWriteKeepsDirectory ==
    [][(/\ ret'.op \in {"put", "delete"} /\ ~ret'.ok
        /\ \/ \E k \in Keys, v \in Values, f \in Faults : PutF(k, v, f)
           \/ \E k \in Keys, f \in Faults : DeleteF(k, f))
           => Keydir' = Keydir]_vars

\* a put of a key that has an entry failed after bytes had reached the file
C13_Witness ==
    /\ ret.op = "put" /\ ~ret.ok
    /\ ret.key \in DOMAIN Keydir
    /\ PartialRecordOnDisk

\* C26 - build_index on a live engine is a no-op for readers: called on an
\* engine that has executed puts and deletes since its open on an empty
\* directory, it leaves the result of get unchanged for every key, and every
\* locator of the directory it builds is the one the write path had stored.
C26_BuildIndexNoOp ==
    [][(session = "S" /\ ret'.op = "build_index" /\ BuildIndex) =>
          /\ \A k \in Keys :
                 GetResult(Keydir', disk', k) = GetResult(Keydir, disk, k)
          /\ \A k \in DOMAIN Keydir' :
                 k \in DOMAIN Keydir /\ Keydir'[k] = Keydir[k]]_vars

\* C27 - Frame of put and delete: a successful put(K, V) or delete(K) changes
\* the directory entry of K only, appends exactly one framed record to the
\* active segment, and leaves the bytes already present in every segment
\* file unchanged.
C27_WriteFrame ==
    [][(/\ ret'.op \in {"put", "delete"} /\ ret'.ok
        /\ \/ ret'.op = "put" /\ Put(ret'.key, ret'.val)
           \/ ret'.op = "delete" /\ Delete(ret'.key))
          => LET K == ret'.key
                 fe == NewFileEntry(K, ret'.val, ret'.op = "delete", now)
                 a == ActiveFile'.name
             IN  /\ \A k \in Keys \ {K} :
                        /\ k \in DOMAIN Keydir' <=> k \in DOMAIN Keydir
                        /\ k \in DOMAIN Keydir => Keydir'[k] = Keydir[k]
                 /\ DOMAIN disk' = DOMAIN disk \cup {a}
                 /\ \A f \in DOMAIN disk \ {a} : disk'[f] = disk[f]
                 /\ disk'[a] = (IF a \in DOMAIN disk THEN disk[a] ELSE <<>>)
                                   \o Frame(fe)]_vars

\* a put that rolled over into a new segment while the directory held
\* another key
C27_Witness ==
    /\ ret.op = "put" /\ ret.ok
    /\ \E k \in DOMAIN Keydir : k # ret.key
    /\ Cardinality(DOMAIN disk) >= 2
    /\ disk[ActiveFile.name] = Frame(NewFileEntry(ret.key, ret.val, FALSE, now))

\* the file holds exactly one framed record
OneFramedRecord(content) ==
    LET r == ReadRecord(content, 0)
    IN  r.st = "record" /\ r.size = Len(content)

\* C21 - Size-cap invariant: a put or delete rolls over before writing
\* exactly when active_size + 8 + L > max_file_size, so in every reachable
\* state each segment file has length <= max_file_size or holds exactly one
\* framed record.
C21_SizeCap ==
    \A f \in DOMAIN disk :
        Len(disk[f]) <= MaxFileSize \/ OneFramedRecord(disk[f])

(***************************************************************************)
(* Properties of build_index on hand-made directories.                     *)
(***************************************************************************)
\* the file holds exactly one record, a put of the key
OnePut(content, key) ==
    LET r == ReadRecord(content, 0)
    IN  /\ r.st = "record" /\ r.size = Len(content)
        /\ r.fe.Key = key /\ ~r.fe.IsTombstone

BuildIndexReturned(t) == loc[t].op = "build_index" /\ loc[t].done /\ loc[t].res.ok

\* C15 - File order decides, whatever the timestamps: when each of two
\* segment files holds one put record of K, after build_index get(K) returns
\* the value of the record in the file with the larger number, also when
\* the record in the other file carries the larger timestamp.
C15_FileOrderWins ==
    \A a, b \in DOMAIN disk, k \in Keys :
        (/\ BuildIndexReturned(Caller)
         /\ a < b
         /\ OnePut(disk[a], k) /\ OnePut(disk[b], k))
            => GetResult(Keydir, disk, k) = Got(ReadRecord(disk[b], 0).fe.Value)

\* C17 - Replay precedence: a step of build_index that has read a record of
\* key K with timestamp T applies it exactly when K has no entry or the
\* entry's timestamp is <= T: a tombstone removes K's entry, any other record
\* makes K's entry the locator of this record (file, offset of its prefix,
\* 8 + payload length, T); when the entry's timestamp is > T the directory
\* stays as it is.
C17_ReplayPrecedence ==
    [][BIUpdate(Caller) =>
          LET fe == loc[Caller].fe
              K == fe.Key
              here == [FileID |-> Head(loc[Caller].files).seg,
                       ValueSz |-> loc[Caller].size,
                       ValuePos |-> loc[Caller].off,
                       Tstamp |-> fe.Tstamp]
          IN  IF K \in DOMAIN Keydir /\ Keydir[K].Tstamp > fe.Tstamp
              THEN Keydir' = Keydir
              ELSE IF fe.IsTombstone
              THEN Keydir' = [k \in DOMAIN Keydir \ {K} |-> Keydir[k]]
              ELSE Keydir' = [k \in DOMAIN Keydir \cup {K} |->
                                 IF k = K THEN here ELSE Keydir[k]]]_vars

\* the record replayed last has the timestamp of the entry it replaced, and
\* the entry is its locator: among equal timestamps the last one wins
C17_Witness ==
    /\ pc[Caller] = "bi_read"
    /\ loc[Caller].size > 0 /\ loc[Caller].off = 2 * loc[Caller].size
    /\ loc[Caller].files # <<>>
    /\ LET K == loc[Caller].fe.Key
           first == ReadRecord(disk[Head(loc[Caller].files).seg], 0).fe
       IN  /\ first.Key = K /\ ~first.IsTombstone
           /\ first.Tstamp = loc[Caller].fe.Tstamp
           /\ K \in DOMAIN Keydir
           /\ Keydir[K].ValuePos = loc[Caller].size

\* the segment numbers of a sequence of entries
RECURSIVE SegmentsOf(_)
SegmentsOf(es) == IF es = <<>> THEN <<>> ELSE <<Head(es).seg>> \o SegmentsOf(Tail(es))

IsSuffix(a, b) == Len(a) <= Len(b) /\ SubSeq(b, Len(b) - Len(a) + 1, Len(b)) = a

\* C19 - Replay order: build_index processes the segment files in ascending
\* order of the integer in their names and nothing else, whatever other
\* entries the directory holds (sub-directories, files without the .data
\* suffix, names whose numeric part does not parse): at every moment the
\* files it has yet to process are a tail of the ascending list of segments.
C19_ReplayOrder ==
    (loc[Caller].op = "build_index" /\ ~loc[Caller].done)
        => IsSuffix(SegmentsOf(loc[Caller].files), SortedNames(DOMAIN disk))

\* What a file holds at an offset: its end ("boundary"), the beginning of a
\* length prefix ("in_prefix"), a prefix and less payload than it announces
\* ("in_payload"), a frame whose payload does not decode ("undecodable"), or
\* a whole record.
FrameAt(content, off) ==
    LET rem == Len(content) - off
    IN  IF rem = 0 THEN "boundary"
        ELSE IF rem < 8 THEN "in_prefix"
        ELSE LET L == Uint64(SubSeq(content, off + 1, off + 8))
             IN  IF L > rem - 8 THEN "in_payload"
                 ELSE IF DeserializeFileEntry(SubSeq(content, off + 9, off + 8 + L)).err
                 THEN "undecodable"
                 ELSE "record"

\* C22 - build_index goes on without error at the end of a segment that
\* ends at a frame boundary (an empty file included) and returns success
\* after the last segment; where a segment ends inside a length prefix, ends
\* inside a payload or holds a payload that does not decode, it returns an
\* error at once, without processing later records or files.
C22_DamagedSegments ==
    [][BIRead(Caller) =>
          IF loc[Caller].files = <<>>
          THEN loc'[Caller].done /\ loc'[Caller].res.ok
          ELSE LET at == FrameAt(EntryContent(disk, Head(loc[Caller].files)),
                                 loc[Caller].off)
               IN  /\ at = "boundary" =>
                          /\ pc'[Caller] = "bi_read"
                          /\ loc'[Caller].files = Tail(loc[Caller].files)
                   /\ at \in {"in_prefix", "in_payload", "undecodable"} =>
                          /\ pc'[Caller] = "idle"
                          /\ loc'[Caller].done /\ ~loc'[Caller].res.ok
                          /\ Keydir' = Keydir]_vars

\* the content from off on is a concatenation of whole framed records
RECURSIVE WholeFrames(_, _)
WholeFrames(content, off) ==
    LET at == FrameAt(content, off)
    IN  IF at = "boundary" THEN TRUE
        ELSE IF at = "record"
        THEN WholeFrames(content, off + 8 + Uint64(SubSeq(content, off + 1, off + 8)))
        ELSE FALSE

\* C23 - Segment well-formedness: when no put or delete is in progress, every
\* segment file is a concatenation of whole framed records; also when an
\* earlier put or delete failed part-way through its write and the last put
\* or delete succeeded.
C23_SegmentsWellFormed ==
    (ret.op \in {"put", "delete"} /\ ret.ok)
        => \A f \in DOMAIN disk : WholeFrames(disk[f], 0)

\* C24 - Rollover is atomic: no operation finds the engine with its active
\* file handle closed and not replaced by a newly opened segment; after a
\* put or delete has returned, with success or with an error, the handle of
\* an engine that was not closed refers to an open file.
C24_RolloverAtomic ==
    ret.op \in {"put", "delete"} => ActiveFile.state # "closed"

(***************************************************************************)
(* Properties of the codec.                                                *)
(***************************************************************************)
\* C16 - Codec round-trip: for every record (any key, value, timestamp,
\* sizes, CRC and tombstone flag), deserializing its serialization succeeds
\* and gives a record equal to it in every field.
C16_CodecRoundTrip ==
    codec.st = "decoded" => (~codec.out.err /\ codec.out.fe = codec.R)

\* a tombstone with a key, a value and sizes that are not their lengths
C16_Witness ==
    /\ codec.st = "decoded"
    /\ codec.R.IsTombstone
    /\ codec.R.Key = <<1, 2>> /\ codec.R.Ksz = 0
    /\ codec.R.Value = <<7>> /\ codec.R.ValueSz = 2
    /\ codec.R.Tstamp = 200

(***************************************************************************)
(* Properties of the engine under concurrent callers.                      *)
(***************************************************************************)
\* C7 - Under concurrent callers, a get(K) that was called after a put(K,V)
\* or delete(K) had returned observes that write's effect or the effect of
\* a later write of K, for any interleaving of put, get, delete, close and
\* build_index.
C7_GetSeesCompletedWrites ==
    \A t \in Threads :
        (loc[t].op = "get" /\ loc[t].done /\ loc[t].floor >= 1)
            => \E i \in loc[t].floor .. loc[t].hi :
                   whist[loc[t].key][i] = loc[t].res

\* C8 - Mutual exclusion: put, get, delete, close and build_index hold the
\* engine mutex for their whole body, so no two threads are at the same time
\* inside handlers that read or write the directory or the active-file
\* handle.
C8_MutualExclusion ==
    \A t1, t2 \in Threads : (t1 # t2 /\ InEngine(t1)) => ~InEngine(t2)

\* C25 - A build_index that runs while other threads put and delete is
\* serializable: it never reads a frame whose length prefix is written and
\* whose payload is not, so on segments that only successful writes have
\* written it never returns an error.
C25_BuildIndexSerializable ==
    \A t \in Threads :
        (loc[t].op = "build_index" /\ loc[t].done) => loc[t].res.ok

\* C28 - No deadlock: put, get, delete and close release be.mu on every
\* return path, so with concurrent callers and filesystem calls that
\* return, every call that was made eventually returns.
C28_NoDeadlock ==
    \A t \in Threads : (pc[t] = "wait") ~> (pc[t] = "idle" /\ loc[t].done)

\* a delete has returned an error that a filesystem call gave it, and another
\* thread has got the lock after it
C28_Witness ==
    \E t, u \in Threads :
        /\ t # u
        /\ loc[t].op = "delete" /\ loc[t].done /\ ~loc[t].res.ok
        /\ loc[t].key \in DOMAIN Keydir
        /\ ActiveFile.state = "open"
        /\ mu = u

====
